---- MODULE Spec2Model ----
(***************************************************************************)
(* The Intcode processor of ThreeFx/aoc-microprocessor.                    *)
(*                                                                         *)
(* Two copies of the processor exist: src/main.rs (bound to the process's  *)
(* stdin/stdout) and src/processor.rs (parameterised over a BufRead and a  *)
(* LineWriter).  The variable "version" says which copy a behaviour runs,  *)
(* the variable "overflow_checks" which build profile (rustc's             *)
(* -C overflow-checks: on in the dev profile, off in the release profile). *)
(***************************************************************************)
EXTENDS Integers, Sequences, FiniteSets

VARIABLES
    version,          \* "main" (src/main.rs) or "processor" (src/processor.rs)
    overflow_checks,  \* build profile: TRUE = i32 overflow panics, FALSE = it wraps
    memory,           \* Processor.memory : Vec<i32>
    ip,               \* Processor.ip : usize (see AsUsize)
    input,            \* the lines of the input source, in order
    consumed,         \* how many lines of input have been taken from the source
    output,           \* the characters written to the output sink, in order
    state,            \* "running", "halted" (run returned), "panicked", "exited"
    err,              \* the error the last step raised ("none" if it raised none)
    last,             \* the instruction type the last step dispatched on
    reported,         \* the numbers the message of the last step's panic carries
                      \* (the message's source location is that of the
                      \* panicking statement, the same whatever ip is)
    steps             \* how many times step() has been entered

vars == <<version, overflow_checks, memory, ip, input, consumed, output,
          state, err, last, reported, steps>>

(***************************************************************************)
(* Bounds of the model.                                                    *)
(***************************************************************************)
MaxSteps == 4     \* step() is entered at most this many times in a behaviour
MaxLines == 2     \* the input source holds at most this many lines

(***************************************************************************)
(* i32: the cell type of the tape.                                         *)
(***************************************************************************)
I32Max == 2147483647
I32Min == -I32Max - 1

\* Mutant of RemI32: the mathematical modulo, never negative.
RemFloor(a, n) == a % n

\* Rust's `a % n` on i32 for n > 0: the remainder has the sign of a.
RemI32(a, n) ==
    LET m == a % n
    IN  IF a >= 0 \/ m = 0 THEN m ELSE m - n

\* Rust's `a / n` on i32 for n > 0: the quotient is truncated towards zero.
DivI32(a, n) ==
    IF a >= 0 \/ a % n = 0 THEN a \div n ELSE (a \div n) + 1

\* Does a + b leave the i32 range?  (Decided without forming a + b.)
AddOverflows(a, b) ==
    \/ a > 0 /\ b > 0 /\ a > I32Max - b
    \/ a < 0 /\ b < 0 /\ a < I32Min - b

\* a + b reduced modulo 2^32 into the i32 range (i32::wrapping_add).
WrappingAdd(a, b) ==
    IF ~AddOverflows(a, b) THEN a + b
    ELSE IF a > 0 THEN ((a - I32Max) - 1) + ((b - I32Max) - 1)
    ELSE ((a + I32Max) + 1) + ((b + I32Max) + 1)

\* Does a * b leave the i32 range?  (Decided without forming a * b.)
MulOverflows(a, b) ==
    IF a = 0 \/ b = 0 THEN FALSE
    ELSE IF a = -1 THEN b = I32Min
    ELSE IF b = -1 THEN a = I32Min
    ELSE IF a > 0 /\ b > 0 THEN a > I32Max \div b
    ELSE IF a > 0 /\ b < 0 THEN b < (I32Min + (a - 1)) \div a
    ELSE IF a < 0 /\ b > 0 THEN a < (I32Min + (b - 1)) \div b
    ELSE IF a = I32Min \/ b = I32Min THEN TRUE
    ELSE (-a) > I32Max \div (-b)

\* a * b reduced modulo 2^32 into the i32 range (i32::wrapping_mul), on
\* 16-bit limbs so that no intermediate result leaves the i32 range:
\* with a = ah * 2^16 + al and b = bh * 2^16 + bl,
\* a * b = (ah * bl + al * bh) * 2^16 + al * bl  (mod 2^32).
WrappingMul(a, b) ==
    LET ah == a \div 65536
        al == a % 65536
        bh == b \div 65536
        bl == b % 65536
        x == al * (bl \div 256)                  \* al * bl = x * 256 + y
        y == al * (bl % 256)
        z == (x % 256) * 256 + y
        low == z % 65536
        high == ((x \div 256) + (z \div 65536)
                   + ((ah * bl) % 65536) + ((al * bh) % 65536)) % 65536
    IN  IF high >= 32768 THEN (high - 65536) * 65536 + low
        ELSE high * 65536 + low

\* The result of an arithmetic closure of step(): under overflow checks an
\* overflowing `+` or `*` panics, otherwise it wraps.
Computed(v) == [ok |-> TRUE, val |-> v]
Overflowed == [ok |-> FALSE, val |-> 0]

add(p1, p2, checks) ==
    IF checks /\ AddOverflows(p1, p2) THEN Overflowed
    ELSE Computed(WrappingAdd(p1, p2))

multiply(p1, p2, checks) ==
    IF checks /\ MulOverflows(p1, p2) THEN Overflowed
    ELSE Computed(WrappingMul(p1, p2))

is_less_than(p1, p2, checks) == Computed(IF p1 < p2 THEN 1 ELSE 0)

is_equal(p1, p2, checks) == Computed(IF p1 = p2 THEN 1 ELSE 0)

(***************************************************************************)
(* usize: the type of ip and of every index into the tape.  A usize is     *)
(* written [wrap, low] and stands for wrap * 2^W + low, W the pointer      *)
(* width: wrap = 0 for the values below 2^31, and wrap = 1, low < 0 for    *)
(* the values 2^W + low that a negative i32 turns into under `as usize`.   *)
(***************************************************************************)
Usize(n) == [wrap |-> 0, low |-> n]

\* `v as usize` for an i32 v: a negative v is sign-extended and reinterpreted.
AsUsize(v) == [wrap |-> IF v >= 0 THEN 0 ELSE 1, low |-> v]

\* `u + i` for a small i.  (With wrap = 1 the sum stays below 2^W as long as
\* low + i < 0; the code only adds to an ip that has just indexed the tape.)
UsizeAdd(u, i) == [wrap |-> u.wrap, low |-> u.low + i]

\* An integer n formatted into a message, in the same notation.
Number(n) == [wrap |-> 0, low |-> n]

\* A value read from the tape, or the panic that ends the step: its message
\* and the numbers formatted into the message, in order.
Value(v) == [ok |-> TRUE, val |-> v, err |-> "none", carried |-> <<>>]
Panic(e) == [ok |-> FALSE, val |-> 0, err |-> e, carried |-> <<>>]
PanicCarrying(e, numbers) ==
    [ok |-> FALSE, val |-> 0, err |-> e, carried |-> numbers]

\* Mutant of Index: a tape that reads as 0 wherever it holds no cell.
IndexDefaultZero(mem, u) ==
    IF u.wrap = 0 /\ u.low < Len(mem) THEN Value(mem[u.low + 1])
    ELSE Value(0)

\* `mem[u]` on a Vec<i32>: bounds-checked, an index >= len panics with
\* "index out of bounds: the len is {len} but the index is {u}".  (A Vec
\* holds fewer than 2^(W-1) bytes, so every wrap = 1 index is out of bounds.)
Index(mem, u) ==
    IF u.wrap = 0 /\ u.low < Len(mem) THEN Value(mem[u.low + 1])
    ELSE PanicCarrying("index out of bounds", <<Number(Len(mem)), u>>)

(***************************************************************************)
(* Text: a string is a sequence of one-character strings.                  *)
(***************************************************************************)
Digits == <<"0", "1", "2", "3", "4", "5", "6", "7", "8", "9">>

\* The decimal digits of n >= 0, most significant first, no leading zero.
RECURSIVE DigitsOf(_)
DigitsOf(n) ==
    IF n < 10 THEN <<Digits[n + 1]>>
    ELSE Append(DigitsOf(n \div 10), Digits[(n % 10) + 1])

\* The decimal digits of |n| for n <= 0, formed without negating n.
RECURSIVE DigitsOfNeg(_)
DigitsOfNeg(n) ==
    LET d == (10 - (n % 10)) % 10
        q == (n + d) \div 10
    IN  IF q = 0 THEN <<Digits[d + 1]>>
        ELSE Append(DigitsOfNeg(q), Digits[d + 1])

\* Mutant of to_string: the sign is left out.
to_string_unsigned(v) == IF v >= 0 THEN DigitsOf(v) ELSE DigitsOfNeg(v)

\* `format!("{}", v)` for an i32 v.
to_string(v) == IF v >= 0 THEN DigitsOf(v) ELSE <<"-">> \o DigitsOfNeg(v)

IsDigit(c) == \E k \in 1..10 : Digits[k] = c
DigitValue(c) == (CHOOSE k \in 1..10 : Digits[k] = c) - 1

\* i32::from_str on the digits after the sign, accumulating left to right as
\* the standard library does: acc * 10 + d for a positive number, acc * 10 - d
\* for a negative one, an overflowing step being an error.
RECURSIVE ParseDigits(_, _, _)
ParseDigits(s, acc, positive) ==
    IF s = <<>> THEN Value(acc)
    ELSE IF ~IsDigit(Head(s)) THEN Panic("invalid digit found in string")
    ELSE LET d == DigitValue(Head(s))
         IN  IF positive
             THEN IF acc > (I32Max - d) \div 10
                  THEN Panic("number too large to fit in target type")
                  ELSE ParseDigits(Tail(s), acc * 10 + d, positive)
             ELSE IF acc < (I32Min + d + 9) \div 10
                  THEN Panic("number too small to fit in target type")
                  ELSE ParseDigits(Tail(s), acc * 10 - d, positive)

\* <i32 as FromStr>::from_str: an optional sign, then at least one digit.
from_str(line) ==
    IF line = <<>> THEN Panic("cannot parse integer from empty string")
    ELSE IF Head(line) \in {"+", "-"}
         THEN IF Tail(line) = <<>> THEN Panic("invalid digit found in string")
              ELSE ParseDigits(Tail(line), 0, Head(line) = "+")
         ELSE ParseDigits(line, 0, TRUE)

(***************************************************************************)
(* Decoding.                                                               *)
(***************************************************************************)
\* enum ParameterMode
Memory == 0
Immediate == 1
ParameterMode == {Memory, Immediate}

\* enum InstructionType
Add == 1
Multiply == 2
Read == 3
Print_ == 4     \* InstructionType::Print
JumpNZ == 5
JumpZ == 6
IsLessThan == 7
IsEqual == 8
Halt == 99
InstructionType ==
    {Add, Multiply, Read, Print_, JumpNZ, JumpZ, IsLessThan, IsEqual, Halt}

\* Mutant of parse_mode: every digit but 1 is taken as Memory.
parse_mode_lenient(mode) ==
    Value(IF mode = Immediate THEN Immediate ELSE Memory)

\* ParameterMode::try_from(mode).expect("invalid parameter mode"): the panic
\* message ends in the error's Debug form, which holds the rejected number.
parse_mode(mode) ==
    IF mode \in ParameterMode THEN Value(mode)
    ELSE PanicCarrying("invalid parameter mode", <<Number(mode)>>)

Decoded(t, m1, m2, m3) ==
    [ok |-> TRUE, err |-> "none", carried |-> <<>>, i_type |-> t,
     p1_mode |-> m1, p2_mode |-> m2, p3_mode |-> m3]
Undecoded(e, numbers) ==
    [ok |-> FALSE, err |-> e, carried |-> numbers, i_type |-> 0,
     p1_mode |-> 0, p2_mode |-> 0, p3_mode |-> 0]

\* Mutant of current_instruction: the modes read most-significant-first, the
\* ten-thousands digit being the mode of the first parameter.
current_instruction_reversed(mem, pc) ==
    LET cell == Index(mem, pc)
        instruction == cell.val
        opcode == RemI32(instruction, 100)
        p1_mode == parse_mode(RemI32(DivI32(instruction, 10000), 10))
        p2_mode == parse_mode(RemI32(DivI32(instruction, 1000), 10))
        p3_mode == parse_mode(RemI32(DivI32(instruction, 100), 10))
    IN  IF ~cell.ok THEN Undecoded(cell.err, cell.carried)
        ELSE IF opcode \notin InstructionType THEN Undecoded("invalid opcode", <<Number(opcode)>>)
        ELSE IF ~p1_mode.ok THEN Undecoded(p1_mode.err, p1_mode.carried)
        ELSE IF ~p2_mode.ok THEN Undecoded(p2_mode.err, p2_mode.carried)
        ELSE IF ~p3_mode.ok THEN Undecoded(p3_mode.err, p3_mode.carried)
        ELSE Decoded(opcode, p1_mode.val, p2_mode.val, p3_mode.val)

\* Mutant of current_instruction: a circular tape, the instruction being
\* fetched at pc modulo the length of the tape.
current_instruction_circular(mem, pc) ==
    LET cell == Index(mem, Usize(pc.low % Len(mem)))
        instruction == cell.val
        opcode == RemI32(instruction, 100)
        p1_mode == parse_mode(RemI32(DivI32(instruction, 100), 10))
        p2_mode == parse_mode(RemI32(DivI32(instruction, 1000), 10))
        p3_mode == parse_mode(RemI32(DivI32(instruction, 10000), 10))
    IN  IF ~cell.ok THEN Undecoded(cell.err, cell.carried)
        ELSE IF opcode \notin InstructionType THEN Undecoded("invalid opcode", <<Number(opcode)>>)
        ELSE IF ~p1_mode.ok THEN Undecoded(p1_mode.err, p1_mode.carried)
        ELSE IF ~p2_mode.ok THEN Undecoded(p2_mode.err, p2_mode.carried)
        ELSE IF ~p3_mode.ok THEN Undecoded(p3_mode.err, p3_mode.carried)
        ELSE Decoded(opcode, p1_mode.val, p2_mode.val, p3_mode.val)

\* The instruction at pc, or the panic of the first check that fails: the
\* index, the opcode, then the three modes from the hundreds digit upwards.
current_instruction(mem, pc) ==
    LET cell == Index(mem, pc)
        instruction == cell.val
        opcode == RemI32(instruction, 100)
        p1_mode == parse_mode(RemI32(DivI32(instruction, 100), 10))
        p2_mode == parse_mode(RemI32(DivI32(instruction, 1000), 10))
        p3_mode == parse_mode(RemI32(DivI32(instruction, 10000), 10))
    IN  IF ~cell.ok THEN Undecoded(cell.err, cell.carried)
        ELSE IF opcode \notin InstructionType THEN Undecoded("invalid opcode", <<Number(opcode)>>)
        ELSE IF ~p1_mode.ok THEN Undecoded(p1_mode.err, p1_mode.carried)
        ELSE IF ~p2_mode.ok THEN Undecoded(p2_mode.err, p2_mode.carried)
        ELSE IF ~p3_mode.ok THEN Undecoded(p3_mode.err, p3_mode.carried)
        ELSE Decoded(opcode, p1_mode.val, p2_mode.val, p3_mode.val)

\* self.memory[self.ip + i]
get_parameter(mem, pc, i) == Index(mem, UsizeAdd(pc, i))

\* The operand at offset i: through the address in Memory mode, the cell
\* itself in Immediate mode.
get_parameter_with_mode(mem, pc, i, mode) ==
    LET raw == Index(mem, UsizeAdd(pc, i))
    IN  IF mode = Memory
        THEN IF raw.ok THEN Index(mem, AsUsize(raw.val)) ELSE raw
        ELSE raw

(***************************************************************************)
(* The handlers.  A handler takes the processor (self: the tape, ip, and   *)
(* the two streams) and yields an outcome: how the call ended ("ok" for    *)
(* Ok(()), "err" for a returned Err, "panic" for a panic), the error, and  *)
(* the processor as the call leaves it.                                    *)
(***************************************************************************)
StoreModeError == "got immediate parameter mode for store address"

Ok(self) == [kind |-> "ok", err |-> "none", carried |-> <<>>, self |-> self]
Err(self, e) == [kind |-> "err", err |-> e, carried |-> <<>>, self |-> self]
Panicked(self, e, numbers) ==
    [kind |-> "panic", err |-> e, carried |-> numbers, self |-> self]

\* Mutant of op: Add and Multiply exchanged.
op_exchanged(i_type, p1, p2, checks) ==
    CASE i_type = Add -> multiply(p1, p2, checks)
      [] i_type = Multiply -> add(p1, p2, checks)
      [] i_type = IsLessThan -> is_less_than(p1, p2, checks)
      [] i_type = IsEqual -> is_equal(p1, p2, checks)

\* The closure step() hands to binary_operation for each instruction type.
op(i_type, p1, p2, checks) ==
    CASE i_type = Add -> add(p1, p2, checks)
      [] i_type = Multiply -> multiply(p1, p2, checks)
      [] i_type = IsLessThan -> is_less_than(p1, p2, checks)
      [] i_type = IsEqual -> is_equal(p1, p2, checks)

\* Mutant of Store: the value is also written to the cell after the target.
StoreSpilling(self, address, value) ==
    [self EXCEPT !.memory =
        [a \in DOMAIN self.memory |->
            IF a \in {address + 1, address + 2} THEN value ELSE self.memory[a]]]

\* self.memory[p3 as usize] = value
Store(self, address, value) ==
    [self EXCEPT !.memory = [self.memory EXCEPT ![address + 1] = value]]

binary_operation(self, i_type, checks) ==
    LET instruction == current_instruction(self.memory, self.ip)
        p1 == get_parameter_with_mode(self.memory, self.ip, 1, instruction.p1_mode)
        p2 == get_parameter_with_mode(self.memory, self.ip, 2, instruction.p2_mode)
        p3 == get_parameter(self.memory, self.ip, 3)
        result == op(i_type, p1.val, p2.val, checks)
        target == Index(self.memory, AsUsize(p3.val))
    IN  IF ~instruction.ok THEN Panicked(self, instruction.err, instruction.carried)
        ELSE IF ~p1.ok THEN Panicked(self, p1.err, p1.carried)
        ELSE IF ~p2.ok THEN Panicked(self, p2.err, p2.carried)
        ELSE IF instruction.p3_mode = Immediate THEN Err(self, StoreModeError)
        ELSE IF ~p3.ok THEN Panicked(self, p3.err, p3.carried)
        ELSE IF ~result.ok THEN Panicked(self, "arithmetic overflow", <<>>)
        ELSE IF ~target.ok THEN Panicked(self, target.err, target.carried)
        ELSE Ok([Store(self, p3.val, result.val)
                    EXCEPT !.ip = UsizeAdd(self.ip, 4)])

\* Mutant of NextLine: the line is looked at but left in the source.
NextLinePeeked(self) ==
    IF self.consumed < Len(self.input)
    THEN [ok |-> TRUE, line |-> self.input[self.consumed + 1], self |-> self]
    ELSE [ok |-> FALSE, line |-> <<>>, self |-> self]

\* self.input.lines().next(): the next line, taken from the source.
NextLine(self) ==
    IF self.consumed < Len(self.input)
    THEN [ok |-> TRUE, line |-> self.input[self.consumed + 1],
          self |-> [self EXCEPT !.consumed = self.consumed + 1]]
    ELSE [ok |-> FALSE, line |-> <<>>, self |-> self]

read(self) ==
    LET instruction == current_instruction(self.memory, self.ip)
        p1 == get_parameter(self.memory, self.ip, 1)
        next == NextLine(self)
        parsed == from_str(next.line)
        target == Index(self.memory, AsUsize(p1.val))
    IN  IF ~instruction.ok THEN Panicked(self, instruction.err, instruction.carried)
        ELSE IF instruction.p1_mode = Immediate THEN Err(self, StoreModeError)
        ELSE IF ~p1.ok THEN Panicked(self, p1.err, p1.carried)
        ELSE IF ~next.ok THEN Panicked(self, "no input line", <<>>)
        ELSE IF ~parsed.ok THEN Panicked(next.self, "unparsable input line", <<>>)
        ELSE IF ~target.ok THEN Panicked(next.self, target.err, target.carried)
        ELSE Ok([Store(next.self, p1.val, parsed.val)
                    EXCEPT !.ip = UsizeAdd(self.ip, 2)])

\* What print writes to the sink: writeln!(self.output, "{}", p1) in
\* processor.rs, print!("{}", p1) in main.rs.
Written(ver, p1) ==
    IF ver = "processor" THEN to_string(p1) \o <<"\n">> ELSE to_string(p1)

print(self, ver) ==
    LET instruction == current_instruction(self.memory, self.ip)
        p1 == get_parameter_with_mode(self.memory, self.ip, 1, instruction.p1_mode)
    IN  IF ~instruction.ok THEN Panicked(self, instruction.err, instruction.carried)
        ELSE IF ~p1.ok THEN Panicked(self, p1.err, p1.carried)
        ELSE Ok([self EXCEPT !.output = self.output \o Written(ver, p1.val),
                             !.ip = UsizeAdd(self.ip, 2)])

\* Mutant of condition: JumpZ tests what JumpNZ tests.
condition_nonzero(i_type, p1) == p1 # 0

\* The closure step() hands to conditional_jump for each instruction type.
condition(i_type, p1) == IF i_type = JumpNZ THEN p1 # 0 ELSE p1 = 0

\* Mutant of conditional_jump: a jump that is not taken clears its own cell.
conditional_jump_clearing(self, i_type) ==
    LET instruction == current_instruction(self.memory, self.ip)
        p1 == get_parameter_with_mode(self.memory, self.ip, 1, instruction.p1_mode)
        p2 == get_parameter_with_mode(self.memory, self.ip, 2, instruction.p2_mode)
    IN  IF ~instruction.ok THEN Panicked(self, instruction.err, instruction.carried)
        ELSE IF ~p1.ok THEN Panicked(self, p1.err, p1.carried)
        ELSE IF ~p2.ok THEN Panicked(self, p2.err, p2.carried)
        ELSE IF condition(i_type, p1.val)
             THEN Ok([self EXCEPT !.ip = AsUsize(p2.val)])
             ELSE Ok([self EXCEPT !.ip = UsizeAdd(self.ip, 3),
                                  !.memory[self.ip.low + 1] = 0])

conditional_jump(self, i_type) ==
    LET instruction == current_instruction(self.memory, self.ip)
        p1 == get_parameter_with_mode(self.memory, self.ip, 1, instruction.p1_mode)
        p2 == get_parameter_with_mode(self.memory, self.ip, 2, instruction.p2_mode)
    IN  IF ~instruction.ok THEN Panicked(self, instruction.err, instruction.carried)
        ELSE IF ~p1.ok THEN Panicked(self, p1.err, p1.carried)
        ELSE IF ~p2.ok THEN Panicked(self, p2.err, p2.carried)
        ELSE IF condition(i_type, p1.val)
             THEN Ok([self EXCEPT !.ip = AsUsize(p2.val)])
             ELSE Ok([self EXCEPT !.ip = UsizeAdd(self.ip, 3)])

(***************************************************************************)
(* The initial states: initialize(program, input, output) on a program and *)
(* an input source drawn from the sets below.                              *)
(***************************************************************************)
\* The lines an input source may hold: "42", "-7", "+07", and "4x" (no
\* integer).
Lines == {<<"4", "2">>, <<"-", "7">>, <<"+", "0", "7">>, <<"4", "x">>}

RECURSIVE SeqsUpTo(_, _)
SeqsUpTo(S, n) ==
    IF n = 0 THEN {<<>>}
    ELSE LET shorter == SeqsUpTo(S, n - 1)
         IN  shorter \cup {Append(q, x) : q \in {r \in shorter : Len(r) = n - 1}, x \in S}

Inputs == SeqsUpTo(Lines, MaxLines)

\* First cells: every instruction type, in every mode the claims speak of,
\* and cells that do not decode.
InstructionCells ==
    {1, 2, 3, 4, 5, 6, 7, 8, 99,
     101, 1001, 1101, 1002, 1102, 1107, 1108, 104, 105, 1005, 1105, 106, 1106,
     10001, 11101, 10002, 11107, 10008, 103,
     0, 42, 242, -1, -99,
     201, 2001, 20001, 299, 20004, 199, 100001}

FirstOperands == {0, 1, 4, 7, -1, I32Max, I32Min}
SecondOperands == {0, 1, 2, 5, -1, I32Max}
ThirdOperands == {0, 3, 4, 5, -1}
LastCells == {99, 4}

\* One instruction with its operands, then one more cell.
CorePrograms ==
    {<<i, a, b, c, t>> : i \in InstructionCells, a \in FirstOperands,
                         b \in SecondOperands, c \in ThirdOperands, t \in LastCells}

\* Two input/output instructions, then Halt.
IoCells == {3, 103, 4, 104}
IoOperands == {0, 1, 4, 5, -1}
IoPrograms ==
    {<<r, a, s, b, 99>> : r \in IoCells, a \in IoOperands,
                          s \in IoCells, b \in IoOperands}

\* The programs the specification names.
NamedPrograms ==
    {<<99>>,
     <<1, 9, 10, 3, 2, 3, 11, 0, 99, 30, 40, 50>>,
     <<1101, 50, 49, 4, 0>>,
     <<1002, 4, 3, 4, 33>>}

\* Programs whose last instruction ends at the end of the tape, or jumps
\* beyond it.
EndPrograms ==
    {<<1101, 1, 1, 0>>, <<104, 7>>, <<1105, 0, 0>>, <<1105, 1, 3>>, <<1106, 0, -1>>}

\* Programs whose first instruction writes the opcode, the mode or the
\* parameter of the instruction executed next.
RewritingPrograms ==
    {<<1101, 100, 4, 4, 0, 0>>, <<1101, 3, 4, 5, 104, 0>>, <<3, 3, 104, 0, 99>>}

Versions == {"main", "processor"}

\* Processor::initialize
initialize(program, lines) ==
    /\ memory = program
    /\ ip = Usize(0)
    /\ input = lines
    /\ consumed = 0
    /\ output = <<>>

Init ==
    /\ version \in Versions
    /\ overflow_checks \in BOOLEAN
    /\ \E program \in CorePrograms \cup IoPrograms \cup NamedPrograms
                          \cup EndPrograms \cup RewritingPrograms :
         \E lines \in (IF program \in IoPrograms \cup RewritingPrograms
                       THEN Inputs ELSE {<<>>}) :
            initialize(program, lines)
    /\ state = "running"
    /\ err = "none"
    /\ last = 0
    /\ reported = <<>>
    /\ steps = 0

(***************************************************************************)
(* run() and step().                                                       *)
(***************************************************************************)
Self ==
    [memory |-> memory, ip |-> ip, input |-> input,
     consumed |-> consumed, output |-> output]

\* Mutant of AfterStep: the loop test inverted, so that run() returns after
\* an instruction that succeeded.
AfterStepInverted(ver, kind) ==
    IF kind = "panic" THEN "panicked"
    ELSE IF kind = "err" /\ ver = "processor" THEN "panicked"
    ELSE "halted"

\* What the run loop does with a handler's outcome.  processor.rs: step()
\* returns the Err (`?`) and run() unwraps it, a panic.  main.rs: step()
\* drops the Result (`let _ = match ...;`) and returns false, so only a
\* panic stops the loop.
AfterStep(ver, kind) ==
    IF kind = "panic" THEN "panicked"
    ELSE IF kind = "err" /\ ver = "processor" THEN "panicked"
    ELSE "running"

\* Mutant of Dispatched: the handler has worked on a copy of the tape, so
\* that the next step decodes what this one did.
DispatchedOnCopy(i_type, o) ==
    /\ memory' = memory
    /\ ip' = o.self.ip
    /\ consumed' = o.self.consumed
    /\ output' = o.self.output
    /\ state' = AfterStep(version, o.kind)
    /\ err' = o.err
    /\ reported' = o.carried
    /\ last' = i_type
    /\ steps' = steps + 1
    /\ UNCHANGED <<version, overflow_checks, input>>

\* One pass of the run loop that dispatched on i_type and got outcome o.
Dispatched(i_type, o) ==
    /\ memory' = o.self.memory
    /\ ip' = o.self.ip
    /\ consumed' = o.self.consumed
    /\ output' = o.self.output
    /\ state' = AfterStep(version, o.kind)
    /\ err' = o.err
    /\ reported' = o.carried
    /\ last' = i_type
    /\ steps' = steps + 1
    /\ UNCHANGED <<version, overflow_checks, input>>

Running == state = "running" /\ steps < MaxSteps

\* step(): current_instruction() panics.
StepUndecoded ==
    /\ Running
    /\ ~current_instruction(memory, ip).ok
    /\ Dispatched(0, Panicked(Self, current_instruction(memory, ip).err,
                                  current_instruction(memory, ip).carried))

\* step(): Add, Multiply, IsLessThan, IsEqual.
StepBinaryOperation ==
    /\ Running
    /\ current_instruction(memory, ip).ok
    /\ current_instruction(memory, ip).i_type \in {Add, Multiply, IsLessThan, IsEqual}
    /\ Dispatched(current_instruction(memory, ip).i_type,
                  binary_operation(Self, current_instruction(memory, ip).i_type,
                                   overflow_checks))

\* step(): Read.
StepRead ==
    /\ Running
    /\ current_instruction(memory, ip).ok
    /\ current_instruction(memory, ip).i_type = Read
    /\ Dispatched(Read, read(Self))

\* step(): Print.
StepPrint ==
    /\ Running
    /\ current_instruction(memory, ip).ok
    /\ current_instruction(memory, ip).i_type = Print_
    /\ Dispatched(Print_, print(Self, version))

\* step(): JumpNZ, JumpZ.
StepConditionalJump ==
    /\ Running
    /\ current_instruction(memory, ip).ok
    /\ current_instruction(memory, ip).i_type \in {JumpNZ, JumpZ}
    /\ Dispatched(current_instruction(memory, ip).i_type,
                  conditional_jump(Self, current_instruction(memory, ip).i_type))

\* step(): Halt; step() returns true and run() returns.
StepHalt ==
    /\ Running
    /\ current_instruction(memory, ip).ok
    /\ current_instruction(memory, ip).i_type = Halt
    /\ state' = "halted"
    /\ err' = "none"
    /\ reported' = <<>>
    /\ last' = Halt
    /\ steps' = steps + 1
    /\ UNCHANGED <<version, overflow_checks, memory, ip, input, consumed, output>>

\* main(): println!("") once run() has returned.
MainPrintln ==
    /\ version = "main"
    /\ state = "halted"
    /\ output' = output \o <<"\n">>
    /\ state' = "exited"
    /\ UNCHANGED <<version, overflow_checks, memory, ip, input, consumed,
                   err, last, reported, steps>>

Next ==
    \/ StepUndecoded
    \/ StepBinaryOperation
    \/ StepRead
    \/ StepPrint
    \/ StepConditionalJump
    \/ StepHalt
    \/ MainPrintln

Spec == Init /\ [][Next]_vars

(***************************************************************************)
(* The vocabulary of the specification, in which the claims are stated:    *)
(* the tape, addresses within its extent, the decimal digits of the cell   *)
(* at ip, and the value of a parameter.                                    *)
(***************************************************************************)
Tape(a) == memory[a + 1]
Within(a) == a >= 0 /\ a < Len(memory)
IpWithin == ip.wrap = 0 /\ Within(ip.low)
AtIp == Tape(ip.low)
Opcodes == {1, 2, 3, 4, 5, 6, 7, 8, 99}
ModeDigit(i) == (AtIp \div (10 ^ (i + 1))) % 10

\* The cell at ip decodes, and its opcode is one of opcodes.
Decodes(opcodes) ==
    /\ IpWithin
    /\ AtIp >= 0
    /\ AtIp % 100 \in opcodes
    /\ \A i \in 1..3 : ModeDigit(i) \in {0, 1}

\* Parameter i and, in Positional mode, the address it holds are in bounds.
OperandWithin(i) ==
    /\ Within(ip.low + i)
    /\ ModeDigit(i) = 0 => Within(Tape(ip.low + i))

\* Parameter i and the write target it holds are in bounds.
TargetWithin(i) == Within(ip.low + i) /\ Within(Tape(ip.low + i))

\* value(p_i)
ValueOf(i) ==
    IF ModeDigit(i) = 0 THEN Tape(Tape(ip.low + i)) ELSE Tape(ip.low + i)

\* A pass of the run loop starts in this state.
InStep == state = "running"

\* The case C1 speaks of, and the result it names.
C1_Precondition ==
    /\ InStep
    /\ Decodes({1, 2, 7, 8})
    /\ ModeDigit(3) = 0
    /\ OperandWithin(1)
    /\ OperandWithin(2)
    /\ TargetWithin(3)

C1_Result ==
    CASE AtIp % 100 = 1 -> WrappingAdd(ValueOf(1), ValueOf(2))
      [] AtIp % 100 = 2 -> WrappingMul(ValueOf(1), ValueOf(2))
      [] AtIp % 100 = 7 -> IF ValueOf(1) < ValueOf(2) THEN 1 ELSE 0
      [] AtIp % 100 = 8 -> IF ValueOf(1) = ValueOf(2) THEN 1 ELSE 0

(***************************************************************************)
(* C1.  An Add, Multiply, IsLessThan or IsEqual with a Positional third    *)
(* mode and all addresses in bounds stores value(p1) + value(p2),          *)
(* value(p1) * value(p2), value(p1) < value(p2) or value(p1) = value(p2)   *)
(* (as 1 or 0) at tape[ip+3], computed from the operands as they were      *)
(* before the step, and sets ip' = ip + 4.  Sums and products are taken    *)
(* in the cells' 32-bit arithmetic.                                        *)
(***************************************************************************)
C1_BinaryStep ==
    [][C1_Precondition =>
         /\ memory' = [memory EXCEPT ![Tape(ip.low + 3) + 1] = C1_Result]
         /\ ip' = Usize(ip.low + 4)]_vars

\* The case C2 speaks of, and whether the jump is taken.
C2_Precondition ==
    /\ InStep
    /\ Decodes({5, 6})
    /\ OperandWithin(1)
    /\ OperandWithin(2)

C2_Taken ==
    IF AtIp % 100 = 5 THEN ValueOf(1) # 0 ELSE ValueOf(1) = 0

(***************************************************************************)
(* C2 as stated.  A JumpNZ or JumpZ with in-bounds operands sets           *)
(* ip' = value(p2) when its condition holds and ip' = ip + 3 otherwise.    *)
(***************************************************************************)
C2_JumpTargetIsValue ==
    [][C2_Precondition =>
         ip' = IF C2_Taken THEN Usize(ValueOf(2)) ELSE Usize(ip.low + 3)]_vars

(***************************************************************************)
(* C2 amended.  A JumpNZ or JumpZ with in-bounds operands sets ip' to      *)
(* value(p2) converted to an unsigned address when its condition holds:    *)
(* value(p2) itself when value(p2) >= 0, and 2^W + value(p2) (W the        *)
(* pointer width, an address beyond any tape) when value(p2) < 0; and      *)
(* ip' = ip + 3 otherwise.  Nothing else changes.                          *)
(***************************************************************************)
C2_JumpStep ==
    [][C2_Precondition =>
         /\ ip' = IF ~C2_Taken THEN Usize(ip.low + 3)
                  ELSE IF ValueOf(2) >= 0 THEN Usize(ValueOf(2))
                  ELSE [wrap |-> 1, low |-> ValueOf(2)]
         /\ state' = "running"
         /\ UNCHANGED <<memory, consumed, output>>]_vars

\* A taken jump to a negative value(p2) has been executed.
C2_Witness ==
    /\ steps = 1
    /\ last \in {JumpNZ, JumpZ}
    /\ state = "running"
    /\ ip.wrap = 1

(***************************************************************************)
(* C3.  The run loop stops only by decoding Halt at ip or by a fatal       *)
(* error; a decoded Halt stops it, and the Halt step leaves memory, ip,    *)
(* the input source and the output sink unchanged.                         *)
(***************************************************************************)
C3_HaltOnly ==
    [][/\ (InStep /\ state' # "running") =>
             \/ /\ state' = "halted"
                /\ Decodes({99})
                /\ UNCHANGED <<memory, ip, input, consumed, output>>
             \/ /\ state' = "panicked"
                /\ err' # "none"
       /\ (InStep /\ Decodes({99})) =>
             /\ state' = "halted"
             /\ UNCHANGED <<memory, ip, input, consumed, output>>]_vars

\* The program [99] has halted after one step, its memory unchanged.
C3_Witness ==
    /\ state = "halted"
    /\ steps = 1
    /\ memory = <<99>>
    /\ ip = Usize(0)

\* The case C4 speaks of.
C4_Precondition ==
    /\ InStep
    /\ version = "processor"
    /\ \/ Decodes({1, 2, 7, 8}) /\ ModeDigit(3) = 1
       \/ Decodes({3}) /\ ModeDigit(1) = 1

(***************************************************************************)
(* C4.  In processor.rs, an Add, Multiply, IsLessThan or IsEqual whose     *)
(* third mode digit is 1, or a Read whose first mode digit is 1, fails     *)
(* with the write-target-mode error, and memory, ip and the input source   *)
(* are as they were.                                                       *)
(***************************************************************************)
C4_StoreModeFails ==
    [][C4_Precondition =>
         /\ state' = "panicked"
         /\ err' = "got immediate parameter mode for store address"
         /\ UNCHANGED <<memory, ip, consumed>>]_vars

\* The five fatal conditions of C5, as the errors the handlers raise.
FatalConditions ==
    {"invalid opcode", "invalid parameter mode",
     "got immediate parameter mode for store address",
     "index out of bounds", "no input line", "unparsable input line"}

(***************************************************************************)
(* C5.  Once one of the five fatal conditions has occurred in a step, no   *)
(* further step is executed and memory, ip and the output are never        *)
(* changed again, in main.rs and in processor.rs alike.                    *)
(***************************************************************************)
C5_FatalStops ==
    [][(err \in FatalConditions) =>
         UNCHANGED <<steps, memory, ip, output>>]_vars

(***************************************************************************)
(* C6.  If the low two decimal digits of the cell at ip, taken with the    *)
(* cell's sign, are not one of 1..8, 99, the step fails with the           *)
(* invalid-opcode error (whatever the mode digits are) and changes neither *)
(* memory nor ip, reads no input and writes no output.                     *)
(***************************************************************************)
C6_InvalidOpcode ==
    [][(InStep /\ IpWithin /\ (AtIp < 0 \/ AtIp % 100 \notin Opcodes)) =>
         /\ state' = "panicked"
         /\ err' = "invalid opcode"
         /\ UNCHANGED <<memory, ip, consumed, output>>]_vars

\* 242 (no such opcode, and a mode digit 2) has failed as an invalid opcode.
C6_Witness ==
    /\ state = "panicked"
    /\ err = "invalid opcode"
    /\ IpWithin
    /\ AtIp = 242

(***************************************************************************)
(* C7.  If the opcode at ip is valid and one of the three mode digits is   *)
(* neither 0 nor 1, the step fails with the invalid-parameter-mode error   *)
(* and changes neither memory nor ip, reads no input and writes no output, *)
(* whatever the instruction type: 299 does not halt, 20004 does not print. *)
(***************************************************************************)
C7_InvalidMode ==
    [][(/\ InStep
        /\ IpWithin
        /\ AtIp >= 0
        /\ AtIp % 100 \in Opcodes
        /\ \E i \in 1..3 : ModeDigit(i) \notin {0, 1}) =>
         /\ state' = "panicked"
         /\ err' = "invalid parameter mode"
         /\ UNCHANGED <<memory, ip, consumed, output>>]_vars

\* 20004 (Print with a third mode digit 2) has failed without printing.
C7_Witness ==
    /\ state = "panicked"
    /\ err = "invalid parameter mode"
    /\ IpWithin
    /\ AtIp = 20004
    /\ output = <<>>

\* The addresses C8 speaks of.
\* The addresses the instruction at ip uses are all in bounds.
C8_AddressesWithin ==
    CASE AtIp % 100 \in {1, 2, 7, 8} ->
           /\ OperandWithin(1)
           /\ OperandWithin(2)
           /\ ModeDigit(3) = 0 => TargetWithin(3)
      [] AtIp % 100 = 3 -> ModeDigit(1) = 0 => TargetWithin(1)
      [] AtIp % 100 = 4 -> OperandWithin(1)
      [] AtIp % 100 \in {5, 6} -> OperandWithin(1) /\ OperandWithin(2)
      [] AtIp % 100 = 99 -> TRUE

C8_SomeAddressOutside ==
    IF IpWithin THEN Decodes(Opcodes) /\ ~C8_AddressesWithin ELSE TRUE

(***************************************************************************)
(* C8.  If ip, or an address the instruction at ip uses (ip+i for each     *)
(* parameter it reads, the address held in a Positional operand, the       *)
(* write target), is negative or not below the memory length, the step     *)
(* ends in a fatal error and changes no cell; and no step changes the      *)
(* extent of the tape.                                                     *)
(***************************************************************************)
C8_BoundsChecked ==
    [][/\ (InStep /\ C8_SomeAddressOutside) =>
             /\ state' = "panicked"
             /\ err' # "none"
             /\ memory' = memory
       /\ DOMAIN memory' = DOMAIN memory]_vars

\* A binary operation whose operands are in bounds and whose write target
\* is not has failed on the store.
C8_Witness ==
    /\ state = "panicked"
    /\ err = "index out of bounds"
    /\ Decodes({1, 2, 7, 8})
    /\ ModeDigit(3) = 0
    /\ OperandWithin(1)
    /\ OperandWithin(2)
    /\ Within(ip.low + 3)
    /\ ~Within(Tape(ip.low + 3))

\* The case C9 speaks of, and what its lines denote.
\* The integer a line of the input source denotes.
C9_Denoted(line) ==
    CASE line = <<"4", "2">> -> 42
      [] line = <<"-", "7">> -> -7
      [] line = <<"+", "0", "7">> -> 7

C9_IsInteger(line) ==
    line \in {<<"4", "2">>, <<"-", "7">>, <<"+", "0", "7">>}

C9_Precondition ==
    /\ InStep
    /\ Decodes({3})
    /\ ModeDigit(1) = 0
    /\ TargetWithin(1)

(***************************************************************************)
(* C9.  A Read in Positional mode with its target in bounds takes the      *)
(* next line of the input source; if the line is an integer it stores      *)
(* that integer at tape[ip+1], changes no other cell and sets              *)
(* ip' = ip + 2; if there is no line or the line is no integer the step    *)
(* fails fatally with memory and ip unchanged.  Only a Read takes lines,   *)
(* at most one per step and exactly one when it succeeds, so the k-th      *)
(* executed Read receives the k-th line.                                   *)
(***************************************************************************)
C9_ReadStep ==
    [][/\ (C9_Precondition /\ consumed < Len(input)
             /\ C9_IsInteger(input[consumed + 1])) =>
             /\ consumed' = consumed + 1
             /\ memory' = [memory EXCEPT ![Tape(ip.low + 1) + 1] =
                                            C9_Denoted(input[consumed + 1])]
             /\ ip' = Usize(ip.low + 2)
             /\ state' = "running"
             /\ output' = output
       /\ (C9_Precondition /\ consumed < Len(input)
             /\ ~C9_IsInteger(input[consumed + 1])) =>
             /\ state' = "panicked"
             /\ err' = "unparsable input line"
             /\ UNCHANGED <<memory, ip, output>>
       /\ (C9_Precondition /\ consumed = Len(input)) =>
             /\ state' = "panicked"
             /\ err' = "no input line"
             /\ UNCHANGED <<memory, ip, output, consumed>>
       /\ (InStep /\ ~Decodes({3})) => consumed' = consumed
       /\ consumed' \in {consumed, consumed + 1}
       /\ input' = input]_vars

\* [3,0,3,1,99] has read "42" and then "-7".
C9_Witness ==
    /\ steps = 2
    /\ last = Read
    /\ consumed = 2
    /\ input = <<(<<"4", "2">>), (<<"-", "7">>)>>
    /\ memory = <<42, -7, 3, 1, 99>>
    /\ ip = Usize(4)

(***************************************************************************)
(* C10.  A Print step whose operand is in bounds appends to the output     *)
(* exactly the decimal representation of value(p1) followed by a line      *)
(* terminator, changes no memory cell, takes no input and sets             *)
(* ip' = ip + 2, in main.rs and in processor.rs alike.                     *)
(***************************************************************************)
C10_PrintStep ==
    [][(InStep /\ Decodes({4}) /\ OperandWithin(1)) =>
         /\ output' = output \o to_string(ValueOf(1)) \o <<"\n">>
         /\ ip' = Usize(ip.low + 2)
         /\ UNCHANGED <<memory, consumed>>]_vars

(***************************************************************************)
(* C11.  A step of Add, Multiply, IsLessThan or IsEqual changes no cell    *)
(* but the one at the address held in tape[ip+3], whether the step         *)
(* succeeds or fails, does not change the extent of the tape, takes no     *)
(* input and writes no output; a step that succeeds advances ip by 4.      *)
(***************************************************************************)
C11_BinaryFrame ==
    [][(InStep /\ Decodes({1, 2, 7, 8})) =>
         /\ DOMAIN memory' = DOMAIN memory
         /\ \A a \in DOMAIN memory :
               memory'[a] # memory[a] =>
                  /\ Within(ip.low + 3)
                  /\ a = Tape(ip.low + 3) + 1
         /\ UNCHANGED <<input, consumed, output>>
         /\ (err' = "none") => ip' = Usize(ip.low + 4)]_vars

\* [1101,1,1,4,99] has added 1 and 1 into cell 4 and left the rest alone.
C11_Witness ==
    /\ steps = 1
    /\ last = Add
    /\ err = "none"
    /\ state = "running"
    /\ memory = <<1101, 1, 1, 4, 2>>
    /\ ip = Usize(4)

(***************************************************************************)
(* C12.  A step of JumpNZ or JumpZ, taken or not, failed or not, changes   *)
(* no cell, takes no input and writes no output; a step that succeeds      *)
(* changes ip.                                                             *)
(***************************************************************************)
C12_JumpFrame ==
    [][(InStep /\ Decodes({5, 6})) =>
         /\ UNCHANGED <<memory, input, consumed, output>>
         /\ (err' = "none" /\ ~C2_Taken) => ip' = Usize(ip.low + 3)]_vars

\* [1105,0,5,3,99]: JumpNZ on 0 has not been taken.
C12_Witness ==
    /\ steps = 1
    /\ last = JumpNZ
    /\ err = "none"
    /\ state = "running"
    /\ memory = <<1105, 0, 5, 3, 99>>
    /\ ip = Usize(3)

(***************************************************************************)
(* C13 as stated.  While the run loop runs, ip is an address within        *)
(* memory: 0 <= ip < memory length.                                        *)
(***************************************************************************)
C13_IpWithinMemory == InStep => IpWithin

\* ip is the representation of an unsigned machine word.
C13_IpIsUsize ==
    \/ ip.wrap = 0 /\ ip.low >= 0
    \/ ip.wrap = 1 /\ ip.low < 0

(***************************************************************************)
(* C13 amended.  ip is always a non-negative address, and it is within     *)
(* memory whenever an instruction is decoded; but a taken jump (to the     *)
(* converted value(p2)) and a fixed-length advance at the end of the tape  *)
(* may leave it at or beyond the memory length.  The bounds are checked by *)
(* the fetch of the next step only: that step fails with the               *)
(* out-of-bounds error and changes neither memory nor ip, takes no input   *)
(* and writes no output.                                                   *)
(***************************************************************************)
C13_IpCheckedAtFetch ==
    [][/\ C13_IpIsUsize
       /\ (InStep /\ ~IpWithin) =>
             /\ state' = "panicked"
             /\ err' = "index out of bounds"
             /\ last' = 0
             /\ UNCHANGED <<memory, ip, consumed, output>>
       /\ (InStep /\ last' # 0) => IpWithin]_vars

\* [1101,1,1,0] has advanced ip to 4, the length of the tape, and the next
\* fetch has failed there.
C13_Witness ==
    /\ steps = 2
    /\ state = "panicked"
    /\ err = "index out of bounds"
    /\ last = 0
    /\ memory = <<2, 1, 1, 0>>
    /\ ip = Usize(4)

\* The tape with the cell at ip cut down to its low five decimal digits.
C14_LowFiveDigits == [memory EXCEPT ![ip.low + 1] = AtIp % 100000]

(***************************************************************************)
(* C14.  The instruction decoded from the cell v at ip has opcode          *)
(* v mod 100 and, for i in 1..3, mode (v / 10^(i+1)) mod 10 for            *)
(* parameter i, 0 being Positional (Memory) and 1 Immediate: the hundreds  *)
(* digit is the mode of p1, the ten-thousands digit that of p3.  A cell    *)
(* decodes exactly if it is not negative, its opcode is one of 1..8, 99    *)
(* and its three mode digits are 0 or 1, and the step dispatches on the    *)
(* decoded opcode.  1002 decodes to Multiply with p1 Positional, p2        *)
(* Immediate, p3 Positional.  The digits above the fifth do not matter:    *)
(* v decodes as v mod 100000 does.                                         *)
(***************************************************************************)
C14_Decode ==
    [][(InStep /\ IpWithin) =>
         LET decoded == current_instruction(memory, ip)
         IN  /\ decoded.ok <=> Decodes(Opcodes)
             /\ decoded.ok =>
                  /\ decoded.i_type = AtIp % 100
                  /\ decoded.p1_mode = ModeDigit(1)
                  /\ decoded.p2_mode = ModeDigit(2)
                  /\ decoded.p3_mode = ModeDigit(3)
                  /\ last' = AtIp % 100
             /\ (AtIp = 1002) =>
                  decoded = Decoded(Multiply, Memory, Immediate, Memory)
             /\ (AtIp >= 0) =>
                  decoded = current_instruction(C14_LowFiveDigits, ip)]_vars

\* [1002,4,3,4,33] has multiplied tape[4] = 33 by 3 into cell 4: p1 was
\* taken as Positional, p2 as Immediate, p3 as Positional.
C14_Witness ==
    /\ steps = 1
    /\ last = Multiply
    /\ err = "none"
    /\ memory = <<1002, 4, 3, 4, 99>>
    /\ ip = Usize(4)

(***************************************************************************)
(* C15.  When one of the five fatal conditions has stopped the run, the    *)
(* failure that is surfaced (the panic message) names the condition and    *)
(* carries the instruction pointer at which it occurred.                   *)
(***************************************************************************)
C15_FailureNamesIp ==
    (state = "panicked" /\ err \in FatalConditions) =>
        \E k \in DOMAIN reported : reported[k] = ip

\* The tape of C16 before its first step, after the Add and after the
\* Multiply.
C16_Program == <<1, 9, 10, 3, 2, 3, 11, 0, 99, 30, 40, 50>>
C16_AfterAdd == <<1, 9, 10, 70, 2, 3, 11, 0, 99, 30, 40, 50>>
C16_AfterMultiply == <<3500, 9, 10, 70, 2, 3, 11, 0, 99, 30, 40, 50>>

(***************************************************************************)
(* C16.  From ip = 0 on [1,9,10,3,2,3,11,0,99,30,40,50] the first step is  *)
(* an Add that stores 30 + 40 = 70 in cell 3, the second a Multiply that   *)
(* stores 70 * 50 = 3500 in cell 0, the third decodes Halt at ip = 8 and   *)
(* stops the run; no step fails, takes input or writes output, and the     *)
(* final memory has cell 0 equal to 3500.                                  *)
(***************************************************************************)
C16_Run ==
    [][/\ (InStep /\ memory = C16_Program /\ ip = Usize(0)) =>
             /\ steps = 0
             /\ last' = Add
             /\ memory' = C16_AfterAdd
             /\ ip' = Usize(4)
             /\ state' = "running"
             /\ err' = "none"
             /\ UNCHANGED <<consumed, output>>
       /\ (InStep /\ memory = C16_AfterAdd /\ ip = Usize(4)) =>
             /\ steps = 1
             /\ last' = Multiply
             /\ memory' = C16_AfterMultiply
             /\ ip' = Usize(8)
             /\ state' = "running"
             /\ err' = "none"
             /\ UNCHANGED <<consumed, output>>
       /\ (InStep /\ memory = C16_AfterMultiply /\ ip = Usize(8)) =>
             /\ steps = 2
             /\ last' = Halt
             /\ state' = "halted"
             /\ err' = "none"
             /\ UNCHANGED <<memory, ip, consumed, output>>
       /\ (Len(memory) = 12 /\ steps = 0) =>
             (memory = C16_Program /\ ip = Usize(0))
       /\ (Len(memory) = 12 /\ steps = 1) =>
             (memory = C16_AfterAdd /\ ip = Usize(4))
       /\ (Len(memory) = 12 /\ steps = 2) =>
             (memory = C16_AfterMultiply /\ ip = Usize(8))]_vars

\* The run has halted on its third step with cell 0 equal to 3500.
C16_Witness ==
    /\ state = "halted"
    /\ steps = 3
    /\ last = Halt
    /\ err = "none"
    /\ memory = C16_AfterMultiply
    /\ Tape(0) = 3500
    /\ output = <<>>

\* The line C17's Print writes for a line its Read has taken.
C17_Printed(line) ==
    CASE line = <<"4", "2">> -> <<"4", "2", "\n">>
      [] line = <<"-", "7">> -> <<"-", "7", "\n">>
      [] line = <<"+", "0", "7">> -> <<"7", "\n">>

\* The run of C17: [3,0,4,0,99] in processor.rs on an input source whose
\* first line is an integer.
C17_Run ==
    /\ version = "processor"
    /\ Len(memory) = 5
    /\ SubSeq(memory, 2, 5) = <<0, 4, 0, 99>>
    /\ Len(input) > 0
    /\ C9_IsInteger(input[1])

(***************************************************************************)
(* C17.  In processor.rs, [3,0,4,0,99] started on an input source whose    *)
(* first line is an integer n ("42", "-7", "+07") reads that line into     *)
(* cell 0, prints cell 0 as one line holding the decimal representation    *)
(* of n ("42", "-7", "7"), and halts on its third step without error,      *)
(* having taken exactly one line from the source and written exactly that  *)
(* one line.                                                               *)
(***************************************************************************)
C17_Echo ==
    [][/\ (InStep /\ C17_Run /\ steps = 0 /\ memory = <<3, 0, 4, 0, 99>>) =>
             /\ last' = Read
             /\ memory' = <<C9_Denoted(input[1]), 0, 4, 0, 99>>
             /\ ip' = Usize(2)
             /\ consumed' = 1
             /\ output' = <<>>
             /\ state' = "running"
             /\ err' = "none"
       /\ (InStep /\ C17_Run /\ steps = 1 /\ last = Read /\ err = "none"
             /\ consumed = 1) =>
             /\ last' = Print_
             /\ memory' = memory
             /\ ip' = Usize(4)
             /\ consumed' = 1
             /\ output' = C17_Printed(input[1])
             /\ state' = "running"
             /\ err' = "none"
       /\ (InStep /\ C17_Run /\ steps = 2 /\ last = Print_ /\ err = "none"
             /\ consumed = 1) =>
             /\ last' = Halt
             /\ state' = "halted"
             /\ err' = "none"
             /\ consumed' = 1
             /\ output' = C17_Printed(input[1])
             /\ UNCHANGED <<memory, ip>>]_vars

\* The run on the lines "42", "-7" has halted: one line taken, "42" written.
C17_Witness ==
    /\ version = "processor"
    /\ state = "halted"
    /\ steps = 3
    /\ input = <<(<<"4", "2">>), (<<"-", "7">>)>>
    /\ consumed = 1
    /\ output = <<"4", "2", "\n">>
    /\ memory = <<42, 0, 4, 0, 99>>
    /\ ip = Usize(4)

\* What the instruction type of the cell at ip is, 0 if it does not decode.
C18_TypeAtIp == IF Decodes(Opcodes) THEN AtIp % 100 ELSE 0

(***************************************************************************)
(* C18.  Every step dispatches on the instruction type of the cell that    *)
(* memory holds at ip when the step starts, and the step after a write     *)
(* uses what was written: [1101,50,49,4,0] writes 99 into cell 4 and then  *)
(* halts there; [1101,100,4,4,0,0] writes 104 into cell 4 and then prints  *)
(* cell 5 in Immediate mode; [1101,3,4,5,104,0] writes 7 into cell 5 and   *)
(* then prints 7; [3,3,104,0,99] reads a line into cell 3 and then prints  *)
(* what it read.                                                           *)
(***************************************************************************)
C18_FreshDecode ==
    [][/\ (InStep /\ IpWithin) => last' = C18_TypeAtIp
       /\ (InStep /\ memory = <<1101, 50, 49, 4, 0>> /\ ip = Usize(0)) =>
             /\ memory' = <<1101, 50, 49, 4, 99>>
             /\ ip' = Usize(4)
             /\ state' = "running"
       /\ (steps = 1 /\ last = Add /\ Len(memory) = 5 /\ SubSeq(memory, 1, 4) = <<1101, 50, 49, 4>>) =>
             /\ last' = Halt
             /\ state' = "halted"
       /\ (InStep /\ memory = <<1101, 100, 4, 4, 0, 0>> /\ ip = Usize(0)) =>
             /\ memory' = <<1101, 100, 4, 4, 104, 0>>
             /\ ip' = Usize(4)
             /\ state' = "running"
       /\ (steps = 1 /\ last = Add /\ Len(memory) = 6 /\ SubSeq(memory, 1, 4) = <<1101, 100, 4, 4>>) =>
             /\ last' = Print_
             /\ Len(output') > 0
             /\ Head(output') = "0"
             /\ ip' = Usize(6)
       /\ (InStep /\ memory = <<1101, 3, 4, 5, 104, 0>> /\ ip = Usize(0)) =>
             /\ memory' = <<1101, 3, 4, 5, 104, 7>>
             /\ ip' = Usize(4)
             /\ state' = "running"
       /\ (steps = 1 /\ last = Add /\ Len(memory) = 6 /\ SubSeq(memory, 1, 4) = <<1101, 3, 4, 5>>) =>
             /\ last' = Print_
             /\ Len(output') > 0
             /\ Head(output') = "7"
             /\ ip' = Usize(6)
       /\ (InStep /\ memory = <<3, 3, 104, 0, 99>> /\ ip = Usize(0)
             /\ Len(input) > 0 /\ input[1] = <<"-", "7">>) =>
             /\ memory' = <<3, 3, 104, -7, 99>>
             /\ ip' = Usize(2)
             /\ state' = "running"
       /\ (steps = 1 /\ last = Read /\ err = "none" /\ Len(memory) = 5
             /\ SubSeq(memory, 1, 3) = <<3, 3, 104>>
             /\ input[1] = <<"-", "7">>) =>
             /\ last' = Print_
             /\ SubSeq(output', 1, 2) = <<"-", "7">>
             /\ ip' = Usize(4)]_vars

\* [1101,50,49,4,0] has written 99 into cell 4 and has halted there.
C18_Witness ==
    /\ state = "halted"
    /\ steps = 2
    /\ last = Halt
    /\ memory = <<1101, 50, 49, 4, 99>>
    /\ ip = Usize(4)

\* The sum or product of the instruction at ip leaves the 32-bit range.
C19_Overflows ==
    IF AtIp % 100 = 1 THEN AddOverflows(ValueOf(1), ValueOf(2))
    ELSE MulOverflows(ValueOf(1), ValueOf(2))

\* The sum or product reduced modulo 2^32 into the signed 32-bit range.
C19_Wrapped ==
    IF AtIp % 100 = 1 THEN WrappingAdd(ValueOf(1), ValueOf(2))
    ELSE WrappingMul(ValueOf(1), ValueOf(2))

(***************************************************************************)
(* C19.  An Add or Multiply with a Positional third mode and all           *)
(* addresses in bounds whose sum or product lies outside                   *)
(* [-2^31, 2^31 - 1] does not fail: it stores the result reduced modulo    *)
(* 2^32 into the signed 32-bit range at tape[ip+3], sets ip' = ip + 4,     *)
(* and the run goes on.                                                    *)
(***************************************************************************)
C19_OverflowWraps ==
    [][(/\ InStep
        /\ Decodes({1, 2})
        /\ ModeDigit(3) = 0
        /\ OperandWithin(1)
        /\ OperandWithin(2)
        /\ TargetWithin(3)
        /\ C19_Overflows) =>
         /\ state' = "running"
         /\ err' = "none"
         /\ memory' = [memory EXCEPT ![Tape(ip.low + 3) + 1] = C19_Wrapped]
         /\ ip' = Usize(ip.low + 4)]_vars

\* The version a behaviour does not run.
C20_Other == IF version = "main" THEN "processor" ELSE "main"

\* What one pass of version ver's run loop makes of the current state: the
\* outcome of the handler step() dispatches to ("halt" for a decoded Halt).
C20_StepOf(ver) ==
    LET instruction == current_instruction(memory, ip)
    IN  IF ~instruction.ok
        THEN Panicked(Self, instruction.err, instruction.carried)
        ELSE CASE instruction.i_type \in {Add, Multiply, IsLessThan, IsEqual} ->
                    binary_operation(Self, instruction.i_type, overflow_checks)
               [] instruction.i_type = Read -> read(Self)
               [] instruction.i_type = Print_ -> print(Self, ver)
               [] instruction.i_type \in {JumpNZ, JumpZ} ->
                    conditional_jump(Self, instruction.i_type)
               [] instruction.i_type = Halt ->
                    [kind |-> "halt", err |-> "none", carried |-> <<>>,
                     self |-> Self]

\* Whether version ver's run loop goes on after that pass.
C20_StateAfter(ver) ==
    IF C20_StepOf(ver).kind = "halt" THEN "halted"
    ELSE AfterStep(ver, C20_StepOf(ver).kind)

(***************************************************************************)
(* C20.  main.rs and processor.rs are the same core: from every state a    *)
(* run of one of them passes through, a step of the other leads to the     *)
(* same memory and ip, has taken the same input lines, has written the     *)
(* same output, and stops the run (by Halt or by a fatal error) exactly if *)
(* the step of the one does; so that, started on the same program and the  *)
(* same input lines, the two pass through the same states and stop at the  *)
(* same step.                                                              *)
(***************************************************************************)
C20_SameCore ==
    [][InStep =>
         /\ memory' = C20_StepOf(C20_Other).self.memory
         /\ ip' = C20_StepOf(C20_Other).self.ip
         /\ consumed' = C20_StepOf(C20_Other).self.consumed
         /\ output' = C20_StepOf(C20_Other).self.output
         /\ state' = C20_StateAfter(C20_Other)]_vars

====
